---- MODULE Spec2Model ----
(***************************************************************************)
(* Hybrid post-quantum file encryption toolkit: the PQC1 container, the    *)
(* encrypt pipeline (encryptor.py) and the decrypt pipeline (decryptor.py).*)
(* Files are byte sequences (naturals 0..255).  The KEM, the DSS and the   *)
(* AEAD are external libraries; they are modelled by deterministic         *)
(* stand-ins that keep their contracts (decaps inverts encaps for the      *)
(* paired key and rejects implicitly otherwise, verify accepts exactly the *)
(* signatures sign produced, the AEAD tag authenticates key, nonce and     *)
(* ciphertext).                                                            *)
(***************************************************************************)
EXTENDS Integers, Sequences, FiniteSets, TLC

----------------------------------------------------------------------------
(* Bounds of the model. *)

\* longest plaintext that is encrypted
MaxLen == 1
\* number of KEM key pairs (recipients)
NKem == 2
\* number of DSS key pairs (signers)
NDss == 2
\* length of a KEM ciphertext (1088 for ML-KEM-768, scaled down)
KemCtLen == 2
\* length of a signature (4627 for ML-DSA-87, scaled down)
SigLen == 2

\* number of concurrent calls of generate_pqc_keys for one user
NCalls == 2

\* byte values a plaintext is made of
PlainBytes == {0, 255}
\* the bits of a byte an attacker flips (bit 0 of every byte of the file)
FlipBits == {0}
\* the distinct outcomes of os.urandom(12)
NonceSeeds == {1, 2}
\* the distinct outcomes of the randomness of one encapsulation
KemSeeds == {1}

----------------------------------------------------------------------------
(* Program constants. *)

PQC_FILE_MAGIC == <<80, 81, 67, 49>>
ALGORITHM_KEM_MLKEM768 == 1
ALGORITHM_DSS_MLDSA87 == 2
ALGORITHM_SYM_AES256GCM == 3
\* os.urandom(12)
NonceLen == 12
\* ciphertext[-16:]
TagLen == 16
\* shared_secret[:32]
KeyLen == 32

----------------------------------------------------------------------------
(* Bytes and integers. *)

Min(a, b) == IF a < b THEN a ELSE b

Pow2(k) == CASE k = 0 -> 1 [] k = 1 -> 2 [] k = 2 -> 4 [] k = 3 -> 8
             [] k = 4 -> 16 [] k = 5 -> 32 [] k = 6 -> 64 [] k = 7 -> 128

BitOf(b, k) == (b \div Pow2(k)) % 2

RECURSIVE OrBits(_, _, _)
OrBits(a, b, k) ==
    IF k > 7 THEN 0
    ELSE (IF BitOf(a, k) = 1 \/ BitOf(b, k) = 1 THEN Pow2(k) ELSE 0)
         + OrBits(a, b, k + 1)

\* Python's a | b on bytes
BitOr(a, b) == OrBits(a, b, 0)

\* the byte b with bit k inverted
FlipBit(b, k) == IF BitOf(b, k) = 1 THEN b - Pow2(k) ELSE b + Pow2(k)

\* struct.pack('>I', n)
PackU32(n) == << (n \div 16777216) % 256, (n \div 65536) % 256,
                 (n \div 256) % 256, n % 256 >>

\* UnpackU32 reading the word little-endian
UnpackU32LE(s) == s[4] * 16777216 + s[3] * 65536 + s[2] * 256 + s[1]

\* struct.unpack('>I', s)[0] for a 4-byte s
UnpackU32(s) == s[1] * 16777216 + s[2] * 65536 + s[3] * 256 + s[4]

\* f.read(n) at offset pos of the byte sequence s: at most n bytes, fewer at
\* the end of the file
ReadAt(s, pos, n) ==
    IF pos >= Len(s) THEN << >>
    ELSE SubSeq(s, pos + 1, IF n > Len(s) - pos THEN Len(s) ELSE pos + n)

\* f.read() at offset pos: the rest of the file
ReadRest(s, pos) == IF pos >= Len(s) THEN << >> ELSE SubSeq(s, pos + 1, Len(s))

\* the '12s' field of struct.pack: cut or zero-padded to 12 bytes
Pack12s(s) == [i \in 1..NonceLen |-> IF i <= Len(s) THEN s[i] ELSE 0]

\* struct.pack('>BII12s', flags, kemLen, tagLen, nonce)
PackBII12s(flags, kemLen, tagLen, nonce) ==
    <<flags>> \o PackU32(kemLen) \o PackU32(tagLen) \o Pack12s(nonce)

RECURSIVE WSum(_, _)
\* position-weighted checksum of a byte sequence (odd weights, so that a
\* change of one byte always changes it)
WSum(s, i) ==
    IF i > Len(s) THEN 0
    ELSE ((2 * i + 1) * s[i] + WSum(s, i + 1)) % 256

Digest(s) == (WSum(s, 1) + 7 * Len(s)) % 256

----------------------------------------------------------------------------
(* The primitive libraries (external collaborators), by their contracts.    *)
(* A key pair is named by its number k >= 1; the number 0 names a blob      *)
(* that is no key of the primitive.                                         *)

\* the ciphertext encaps returns for key pair k and randomness r
KemCt(k, r) ==
    [i \in 1..KemCtLen |-> IF i = 1 THEN k ELSE IF i = 2 THEN r ELSE 0]

\* the shared secret of that encapsulation (32 bytes for ML-KEM-768)
SharedSecret(k, r) ==
    [i \in 1..KeyLen |-> IF i = 1 THEN 16 * k + r ELSE (3 * i) % 256]

\* the pseudo-random secret of ML-KEM's implicit rejection
RejectSecret(k, ct) ==
    [i \in 1..KeyLen |-> IF i = 1 THEN 128 + ((Digest(ct) + 5 * k) % 128)
                         ELSE (3 * i) % 256]

\* kem_instance.encaps(pk) with randomness r: raises on a blob that is no
\* public key
Encaps(pk, r) ==
    IF pk \in 1..NKem
    THEN [ok |-> TRUE, ct |-> KemCt(pk, r), ss |-> SharedSecret(pk, r)]
    ELSE [ok |-> FALSE, ct |-> << >>, ss |-> << >>]

\* Decaps that recovers the encapsulated secret whatever the private key
DecapsAnyKey(sk, ct) ==
    IF sk \notin 1..NKem \/ Len(ct) # KemCtLen
    THEN [ok |-> FALSE, ss |-> << >>]
    ELSE IF ct[2] \in KemSeeds /\ ct[1] \in 1..NKem /\ ct = KemCt(ct[1], ct[2])
    THEN [ok |-> TRUE, ss |-> SharedSecret(ct[1], ct[2])]
    ELSE [ok |-> TRUE, ss |-> RejectSecret(sk, ct)]

\* kem_instance.decaps(sk, ct): raises on a ciphertext of the wrong length,
\* inverts encaps for the paired key, rejects implicitly otherwise
Decaps(sk, ct) ==
    IF sk \notin 1..NKem \/ Len(ct) # KemCtLen
    THEN [ok |-> FALSE, ss |-> << >>]
    ELSE IF ct[2] \in KemSeeds /\ ct = KemCt(sk, ct[2])
    THEN [ok |-> TRUE, ss |-> SharedSecret(sk, ct[2])]
    ELSE [ok |-> TRUE, ss |-> RejectSecret(sk, ct)]

\* HKDF-SHA256(secret, salt = None, info = 'pqc-aes-key'), 32 bytes
Hkdf(ss) == [i \in 1..KeyLen |-> (Digest(ss) + 11 * i + 64) % 256]

\* the session key of the quantcrypt branch: the first 32 bytes of a secret
\* of at least 32 bytes, its HKDF otherwise
DeriveKey(ss) ==
    IF Len(ss) >= KeyLen THEN SubSeq(ss, 1, KeyLen) ELSE Hkdf(ss)

\* the libraries _get_pqc_library looks for, in its order
Libraries == <<"quantcrypt", "pqcrypto", "kyber_dilithium">>

\* shared_secret + b'\x00' * (32 - len(shared_secret))
ZeroPad(ss) == [i \in 1..KeyLen |-> IF i <= Len(ss) THEN ss[i] ELSE 0]

\* the session key _encapsulate_key returns, for the library in use and the
\* shared secret it returned
EncapsulateKey(lib, ss) ==
    IF lib = "quantcrypt" THEN DeriveKey(ss)
    ELSE IF Len(ss) >= KeyLen THEN SubSeq(ss, 1, KeyLen) ELSE ZeroPad(ss)

\* the session key _decapsulate_key returns, for the library in use and the
\* shared secret it returned
DecapsulateKey(lib, ss) ==
    IF lib = "quantcrypt" THEN DeriveKey(ss)
    ELSE IF Len(ss) >= KeyLen THEN SubSeq(ss, 1, KeyLen) ELSE ZeroPad(ss)

\* dss_instance.sign(sk, data)
Sign(sk, data) ==
    [j \in 1..SigLen |-> (41 * sk + (2 * j - 1) * Digest(data) + j) % 256]

\* dss_instance.verify(pk, data, signature): a boolean, as the docstring of
\* _verify_signature and its caller take it (TRUE exactly for the signature
\* the paired key made of data)
Verify(pk, data, signature) ==
    pk \in 1..NDss /\ signature = Sign(pk, data)

\* the GCM key stream at byte i
KeyStream(key, nonce, i) == (Digest(key) + 3 * Digest(nonce) + 5 * i + 1) % 256

\* the GCM authentication tag over key, nonce and ciphertext
GcmTag(key, nonce, ct) ==
    [j \in 1..TagLen |->
        CASE j = 1 -> Digest(key)
          [] j = 2 -> Digest(nonce)
          [] j = 3 -> Digest(ct)
          [] j = 4 -> Len(ct) % 256
          [] OTHER -> (Digest(key) + Digest(nonce) + Digest(ct) + j) % 256]

\* AESGCM(key).encrypt(nonce, plaintext, None): ciphertext || tag
AesGcmEncrypt(key, nonce, pt) ==
    LET ct == [i \in 1..Len(pt) |-> (pt[i] + KeyStream(key, nonce, i)) % 256]
    IN  ct \o GcmTag(key, nonce, ct)

\* AESGCM(key).decrypt(nonce, data, None): raises (ok = FALSE) on a nonce of
\* fewer than 8 bytes, on data shorter than a tag and on a tag mismatch
AesGcmDecrypt(key, nonce, data) ==
    IF Len(nonce) < 8 \/ Len(data) < TagLen
    THEN [ok |-> FALSE, pt |-> << >>]
    ELSE LET n  == Len(data) - TagLen
             ct == SubSeq(data, 1, n)
             tg == SubSeq(data, n + 1, Len(data))
         IN  IF tg # GcmTag(key, nonce, ct)
             THEN [ok |-> FALSE, pt |-> << >>]
             ELSE [ok |-> TRUE,
                   pt |-> [i \in 1..n |->
                             (ct[i] + 256 - KeyStream(key, nonce, i)) % 256]]

----------------------------------------------------------------------------
(* State. *)

VARIABLES
    plain,      \* the file to encrypt
    container,  \* the .pqc file: written by encrypt, read by decrypt
    output,     \* the "-decrypted" file decrypt writes
    enc,        \* the run of encrypt_file_hybrid: position and locals
    dec,        \* the run of decrypt_file_hybrid: position and locals
    tamper,     \* what was done to the container between the two runs
    fs,         \* the files of a directory two invocations work in
    procs,      \* the concurrent invocations: position and locals of each
    cli,        \* the run of main(): arguments, position, exit status
    env         \* the installed libraries and the library each module uses

\* the pipeline of one encrypt run and one decrypt run
core == <<plain, container, output, enc, dec, tamper>>
\* the front ends and the environment around it
frontEnd == <<fs, procs, cli, env>>

vars == <<plain, container, output, enc, dec, tamper, fs, procs, cli, env>>

File(bytes) == [exists |-> TRUE, data |-> bytes]
NoFile == [exists |-> FALSE, data |-> << >>]

RECURSIVE SeqsUpTo(_, _)
\* the sequences over S of length at most n
SeqsUpTo(S, n) ==
    IF n = 0 THEN {<< >>}
    ELSE LET shorter == SeqsUpTo(S, n - 1)
         IN  shorter \cup {Append(s, b) : s \in shorter, b \in S}

Plaintexts == SeqsUpTo(PlainBytes, MaxLen)

\* no front end is running: no directory, no invocation, no command line,
\* no library looked for
FrontEndIdle ==
    /\ fs = << >>
    /\ procs = << >>
    /\ cli = [pc |-> "idle"]
    /\ env = [pc |-> "idle"]

\* the n-th value of os.urandom(12)
Urandom12(n) == [i \in 1..NonceLen |-> (37 * n + i) % 256]

----------------------------------------------------------------------------
(* encrypt_file_hybrid *)

EncIdle ==
    [pc |-> "idle", err |-> "none", rk |-> 0, signer |-> 0,
     kem_ct |-> << >>, key |-> << >>, nonce |-> << >>,
     ct |-> << >>, tag |-> << >>, flags |-> 0,
     hasSig |-> FALSE, sig |-> << >>, payload |-> << >>,
     encaps |-> 0, nonces |-> 0, aead |-> 0, opened |-> FALSE,
     lib |-> Libraries[1], ss |-> << >>]

EncFail(e, kind) == [e EXCEPT !.pc = "done", !.err = kind]

\* algorithms_byte = ALGORITHM_KEM_MLKEM768 | ALGORITHM_SYM_AES256GCM, and
\* |= ALGORITHM_DSS_MLDSA87 when signing
AlgorithmsByte(signing) ==
    LET base == BitOr(ALGORITHM_KEM_MLKEM768, ALGORITHM_SYM_AES256GCM)
    IN  IF signing THEN BitOr(base, ALGORITHM_DSS_MLDSA87) ELSE base

\* EncSignaturePayload without the nonce
EncSignaturePayloadNoNonce(flags, kem_ct, tag, nonce, ct) ==
    <<flags>> \o PackU32(Len(kem_ct)) \o PackU32(Len(tag))
        \o kem_ct \o tag \o ct

\* the payload encrypt signs
EncSignaturePayload(flags, kem_ct, tag, nonce, ct) ==
    PackBII12s(flags, Len(kem_ct), Len(tag), nonce) \o kem_ct \o tag \o ct

\* EncodeContainer with the GCM output written as returned, tag last
EncodeContainerTagLast(flags, kem_ct, tag, hasSig, sig, nonce, ct) ==
    LET signed == hasSig /\ Len(sig) > 0
    IN  PQC_FILE_MAGIC \o <<flags>> \o PackU32(Len(kem_ct))
        \o PackU32(Len(tag)) \o PackU32(IF signed THEN Len(sig) ELSE 0)
        \o nonce \o kem_ct \o (IF signed THEN sig ELSE << >>) \o ct \o tag

\* EncodeContainer with the file padded with a zero byte to an even length
EncodeContainerPadded(flags, kem_ct, tag, hasSig, sig, nonce, ct) ==
    LET signed == hasSig /\ Len(sig) > 0
        c == PQC_FILE_MAGIC \o <<flags>> \o PackU32(Len(kem_ct))
             \o PackU32(Len(tag)) \o PackU32(IF signed THEN Len(sig) ELSE 0)
             \o nonce \o kem_ct \o tag \o (IF signed THEN sig ELSE << >>)
             \o ct
    IN  IF Len(c) % 2 = 0 THEN c ELSE Append(c, 0)

\* the bytes the with-block of encrypt writes to the output file
EncodeContainer(flags, kem_ct, tag, hasSig, sig, nonce, ct) ==
    LET signed == hasSig /\ Len(sig) > 0
    IN  PQC_FILE_MAGIC \o <<flags>> \o PackU32(Len(kem_ct))
        \o PackU32(Len(tag)) \o PackU32(IF signed THEN Len(sig) ELSE 0)
        \o nonce \o kem_ct \o tag \o (IF signed THEN sig ELSE << >>) \o ct

\* the input file and the recipient's public key are read; signer = 0 is
\* signer_private_dss_key_path = None
EncStart(rk, signer) ==
    /\ enc.pc = "idle"
    /\ enc' = IF ~plain.exists THEN EncFail(enc, "FileNotFound")
              ELSE [enc EXCEPT !.pc = "kem", !.rk = rk, !.signer = signer]
    /\ UNCHANGED <<plain, container, output, dec, tamper>> /\ UNCHANGED frontEnd

\* _encapsulate_key
EncKem(r) ==
    /\ enc.pc = "kem"
    /\ LET e == Encaps(enc.rk, r)
       IN  enc' = IF ~e.ok
                  THEN EncFail([enc EXCEPT !.encaps = @ + 1], "PrimitiveFailure")
                  ELSE [enc EXCEPT !.pc = "aead", !.kem_ct = e.ct,
                                   !.ss = e.ss,
                                   !.key = EncapsulateKey(enc.lib, e.ss),
                                   !.encaps = @ + 1]
    /\ UNCHANGED <<plain, container, output, dec, tamper>> /\ UNCHANGED frontEnd

\* EncAead with the session key used for a second AES-GCM encryption
EncAeadTwice(n) ==
    /\ enc.pc = "aead"
    /\ LET nonce == Urandom12(n)
           c     == AesGcmEncrypt(enc.key, nonce, plain.data)
       IN  enc' = [enc EXCEPT !.pc = "sign", !.nonce = nonce,
                              !.ct = SubSeq(c, 1, Len(c) - 16),
                              !.tag = SubSeq(c, Len(c) - 15, Len(c)),
                              !.flags = AlgorithmsByte(FALSE),
                              !.nonces = @ + 1, !.aead = @ + 2]
    /\ UNCHANGED <<plain, container, output, dec, tamper>> /\ UNCHANGED frontEnd

\* the nonce, AES-256-GCM, the split into ciphertext and tag, the flags
EncAead(n) ==
    /\ enc.pc = "aead"
    /\ LET nonce == Urandom12(n)
           c     == AesGcmEncrypt(enc.key, nonce, plain.data)
       IN  enc' = [enc EXCEPT !.pc = "sign", !.nonce = nonce,
                              !.ct = SubSeq(c, 1, Len(c) - 16),
                              !.tag = SubSeq(c, Len(c) - 15, Len(c)),
                              !.flags = AlgorithmsByte(FALSE),
                              !.nonces = @ + 1, !.aead = @ + 1]
    /\ UNCHANGED <<plain, container, output, dec, tamper>> /\ UNCHANGED frontEnd

\* the optional signature
EncSign ==
    /\ enc.pc = "sign"
    /\ enc' = IF enc.signer = 0 THEN [enc EXCEPT !.pc = "write"]
              ELSE LET flags   == AlgorithmsByte(TRUE)
                       payload == EncSignaturePayload(flags, enc.kem_ct,
                                      enc.tag, enc.nonce, enc.ct)
                   IN  [enc EXCEPT !.pc = "write", !.flags = flags,
                                   !.hasSig = TRUE, !.payload = payload,
                                   !.sig = Sign(enc.signer, payload)]
    /\ UNCHANGED <<plain, container, output, dec, tamper>> /\ UNCHANGED frontEnd

\* the output file is opened and written
EncWrite ==
    /\ enc.pc = "write"
    /\ container' = File(EncodeContainer(enc.flags, enc.kem_ct, enc.tag,
                                         enc.hasSig, enc.sig, enc.nonce, enc.ct))
    /\ enc' = [enc EXCEPT !.pc = "done", !.opened = TRUE]
    /\ UNCHANGED <<plain, output, dec, tamper>> /\ UNCHANGED frontEnd

----------------------------------------------------------------------------
(* What an attacker does to the container between encrypt and decrypt. *)

NoTamper == [kind |-> "none", region |-> "none"]

\* the field of the container encrypt wrote that byte pos (1-based) lies in
Region(pos) ==
    LET k == 29 + Len(enc.kem_ct)
        t == k + Len(enc.tag)
        g == t + Len(enc.sig)
    IN  CASE pos <= 4  -> "magic"
          [] pos = 5   -> "flags"
          [] pos \in 6..9   -> "kem_ct_len"
          [] pos \in 10..13 -> "tag_len"
          [] pos \in 14..17 -> "sig_len"
          [] pos \in 18..29 -> "nonce"
          [] pos > 29 /\ pos <= k -> "kem_ct"
          [] pos > k /\ pos <= t  -> "tag"
          [] pos > t /\ pos <= g  -> "signature"
          [] OTHER -> "ct"

\* one bit of one byte of the container is inverted (the length words stay
\* below 2^31, the integers of the model checker)
TamperFlip(pos, bit) ==
    /\ enc.pc = "done" /\ enc.err = "none"
    /\ dec.pc = "idle" /\ tamper.kind = "none"
    /\ pos \in 1..Len(container.data)
    /\ ~(pos \in {6, 10, 14} /\ bit = 7)
    /\ container' = File([container.data EXCEPT ![pos] = FlipBit(@, bit)])
    /\ tamper' = [kind |-> "flip", region |-> Region(pos)]
    /\ UNCHANGED <<plain, output, enc, dec>> /\ UNCHANGED frontEnd

\* sig_len is set to 0 and the signature bytes are deleted
TamperStripSignature ==
    /\ enc.pc = "done" /\ enc.err = "none" /\ enc.hasSig
    /\ dec.pc = "idle" /\ tamper.kind = "none"
    /\ container' = File(PQC_FILE_MAGIC \o <<enc.flags>>
                         \o PackU32(Len(enc.kem_ct)) \o PackU32(Len(enc.tag))
                         \o PackU32(0) \o enc.nonce \o enc.kem_ct \o enc.tag
                         \o enc.ct)
    /\ tamper' = [kind |-> "strip_signature", region |-> "signature"]
    /\ UNCHANGED <<plain, output, enc, dec>> /\ UNCHANGED frontEnd

\* tag_len is set to 0 and the 16 tag bytes are moved to the end of the file
TamperMoveTag ==
    /\ enc.pc = "done" /\ enc.err = "none"
    /\ dec.pc = "idle" /\ tamper.kind = "none"
    /\ container' = File(PQC_FILE_MAGIC \o <<enc.flags>>
                         \o PackU32(Len(enc.kem_ct)) \o PackU32(0)
                         \o PackU32(Len(enc.sig)) \o enc.nonce \o enc.kem_ct
                         \o enc.sig \o enc.ct \o enc.tag)
    /\ tamper' = [kind |-> "move_tag", region |-> "tag"]
    /\ UNCHANGED <<plain, output, enc, dec>> /\ UNCHANGED frontEnd

\* the lengths a container is cut to: inside the magic, inside the length
\* words, inside the nonce, and after the KEM ciphertext
TruncLens == {3, 16, 17, 28, 29 + Len(enc.kem_ct)}

\* the container is cut to its first n bytes
TamperTruncate(n) ==
    /\ enc.pc = "done" /\ enc.err = "none"
    /\ dec.pc = "idle" /\ tamper.kind = "none"
    /\ n < Len(container.data)
    /\ container' = File(SubSeq(container.data, 1, n))
    /\ tamper' = [kind |-> "truncate", region |-> Region(n + 1)]
    /\ UNCHANGED <<plain, output, enc, dec>> /\ UNCHANGED frontEnd

----------------------------------------------------------------------------
(* decrypt_file_hybrid *)

DecIdle ==
    [pc |-> "idle", err |-> "none", sk |-> 0, spk |-> 0, require |-> FALSE,
     flags |-> 0, kem_ct_len |-> 0, tag_len |-> 0, sig_len |-> 0,
     nonce |-> << >>, kem_ct |-> << >>, tag |-> << >>,
     hasSig |-> FALSE, sig |-> << >>, ct |-> << >>, payload |-> << >>,
     key |-> << >>, pt |-> << >>,
     keyRead |-> FALSE, decaps |-> FALSE, verify |-> FALSE,
     verifyFirst |-> FALSE, aead |-> FALSE, opened |-> FALSE,
     present |-> FALSE, verified |-> "null", nread |-> 0,
     lib |-> Libraries[1], ss |-> << >>]

DecFail(d, kind) == [d EXCEPT !.pc = "done", !.err = kind]

\* the reads after the magic: the header fields (struct.unpack raises
\* struct.error on the first short read, at the end of the file), the nonce
\* and the variable fields (f.read returns what is left, without an error)
ParseFields(d, b) ==
    LET hFlag == ReadAt(b, 4, 1)
        hKem  == ReadAt(b, 5, 4)
        hTag  == ReadAt(b, 9, 4)
        hSig  == ReadAt(b, 13, 4)
    IN  IF Len(hFlag) # 1 \/ Len(hKem) # 4 \/ Len(hTag) # 4 \/ Len(hSig) # 4
        THEN [DecFail(d, "StructError") EXCEPT !.nread = Len(b)]
        ELSE LET kemLen == UnpackU32(hKem)
                 tagLen == UnpackU32(hTag)
                 sigLen == UnpackU32(hSig)
                 nonce  == ReadAt(b, 17, 12)
                 p1     == 17 + Len(nonce)
                 kem_ct == ReadAt(b, p1, kemLen)
                 p2     == p1 + Len(kem_ct)
                 tag    == ReadAt(b, p2, tagLen)
                 p3     == p2 + Len(tag)
                 sig    == IF sigLen > 0 THEN ReadAt(b, p3, sigLen) ELSE << >>
                 p4     == p3 + Len(sig)
             IN  [d EXCEPT !.pc = "kem", !.flags = hFlag[1],
                           !.kem_ct_len = kemLen, !.tag_len = tagLen,
                           !.sig_len = sigLen, !.nonce = nonce,
                           !.kem_ct = kem_ct, !.tag = tag,
                           !.hasSig = (sigLen > 0), !.sig = sig,
                           !.ct = ReadRest(b, p4), !.nread = Len(b)]

\* ParseContainer without the comparison of the magic
ParseContainerAnyMagic(d, b) == ParseFields(d, b)

\* the with-block that reads the container: magic = f.read(4) is compared
\* first, then the other fields are read
ParseContainer(d, b) ==
    LET magic == ReadAt(b, 0, 4)
    IN  IF magic # PQC_FILE_MAGIC
        THEN [DecFail(d, "BadMagic") EXCEPT !.nread = Len(magic)]
        ELSE ParseFields(d, b)

\* the container is opened and parsed; spk = 0 is
\* signer_public_dss_key_path = None
DecStart(sk, spk, require) ==
    /\ dec.pc = "idle" /\ enc.pc = "done"
    /\ LET d == [dec EXCEPT !.sk = sk, !.spk = spk, !.require = require]
       IN  dec' = IF ~container.exists THEN DecFail(d, "FileNotFound")
                  ELSE ParseContainer(d, container.data)
    /\ UNCHANGED <<plain, container, output, enc, tamper>> /\ UNCHANGED frontEnd

\* the recipient's private key is read and the session key decapsulated
DecKem ==
    /\ dec.pc = "kem"
    /\ LET r == Decaps(dec.sk, dec.kem_ct)
           d == [dec EXCEPT !.keyRead = TRUE, !.decaps = TRUE]
       IN  dec' = IF ~r.ok THEN DecFail(d, "PrimitiveFailure")
                  ELSE [d EXCEPT !.pc = "policy", !.ss = r.ss,
                                 !.key = DecapsulateKey(dec.lib, r.ss)]
    /\ UNCHANGED <<plain, container, output, enc, tamper>> /\ UNCHANGED frontEnd

\* SignaturePolicy without the branch that requires the signer's key
SignaturePolicyLenient(present, signerGiven, require, valid) ==
    IF present
    THEN IF signerGiven
         THEN IF ~valid THEN [err |-> "SignatureInvalid", verified |-> "null"]
              ELSE [err |-> "none", verified |-> "true"]
         ELSE [err |-> "none", verified |-> "false"]
    ELSE IF require THEN [err |-> "SignatureRequired", verified |-> "null"]
         ELSE [err |-> "none", verified |-> "null"]

\* SignaturePolicy with the result of the verification ignored
SignaturePolicyUnchecked(present, signerGiven, require, valid) ==
    IF present
    THEN IF signerGiven THEN [err |-> "none", verified |-> "true"]
         ELSE IF require
              THEN [err |-> "MissingSignerKey", verified |-> "null"]
              ELSE [err |-> "none", verified |-> "false"]
    ELSE IF require THEN [err |-> "SignatureRequired", verified |-> "null"]
         ELSE [err |-> "none", verified |-> "null"]

\* SignaturePolicy that reports a signature nobody verified as verified
SignaturePolicyTrusting(present, signerGiven, require, valid) ==
    IF present
    THEN IF signerGiven
         THEN IF ~valid THEN [err |-> "SignatureInvalid", verified |-> "null"]
              ELSE [err |-> "none", verified |-> "true"]
         ELSE IF require
              THEN [err |-> "MissingSignerKey", verified |-> "null"]
              ELSE [err |-> "none", verified |-> "true"]
    ELSE IF require THEN [err |-> "SignatureRequired", verified |-> "null"]
         ELSE [err |-> "none", verified |-> "null"]

\* the if/elif chain on signature_present, the signer key and
\* require_signature: the error raised ("none" when the run goes on) and
\* signature_verified
SignaturePolicy(present, signerGiven, require, valid) ==
    IF present
    THEN IF signerGiven
         THEN IF ~valid THEN [err |-> "SignatureInvalid", verified |-> "null"]
              ELSE [err |-> "none", verified |-> "true"]
         ELSE IF require
              THEN [err |-> "MissingSignerKey", verified |-> "null"]
              ELSE [err |-> "none", verified |-> "false"]
    ELSE IF require THEN [err |-> "SignatureRequired", verified |-> "null"]
         ELSE [err |-> "none", verified |-> "null"]

\* DecSignaturePayload with ciphertext and tag in the AEAD's order
DecSignaturePayloadCtFirst(flags, kemLen, tagLen, nonce, kem_ct, tag, ct) ==
    PackBII12s(flags, kemLen, tagLen, nonce) \o kem_ct \o ct \o tag

\* the payload decrypt verifies, rebuilt from the parsed fields
DecSignaturePayload(flags, kemLen, tagLen, nonce, kem_ct, tag, ct) ==
    PackBII12s(flags, kemLen, tagLen, nonce) \o kem_ct \o tag \o ct

\* the signature phase
DecPolicy ==
    /\ dec.pc = "policy"
    /\ LET present == dec.hasSig
           payload == IF present
                      THEN DecSignaturePayload(dec.flags, dec.kem_ct_len,
                               dec.tag_len, dec.nonce, dec.kem_ct, dec.tag,
                               dec.ct)
                      ELSE << >>
           called  == present /\ dec.spk # 0
           valid   == called /\ Verify(dec.spk, payload, dec.sig)
           res     == SignaturePolicy(present, dec.spk # 0, dec.require, valid)
           d       == [dec EXCEPT !.present = present, !.payload = payload,
                                  !.verify = called,
                                  !.verifyFirst = called /\ ~dec.decaps,
                                  !.verified = res.verified]
       IN  dec' = IF res.err # "none" THEN DecFail(d, res.err)
                  ELSE [d EXCEPT !.pc = "aead"]
    /\ UNCHANGED <<plain, container, output, enc, tamper>> /\ UNCHANGED frontEnd

\* DecryptPayload with the AEAD's exception swallowed: an empty plaintext
\* goes on to be written
DecryptPayloadSwallow(d, out) ==
    LET r  == AesGcmDecrypt(d.key, d.nonce, d.ct \o d.tag)
        d1 == [d EXCEPT !.aead = TRUE]
    IN  [dec |-> [d1 EXCEPT !.pc = "write", !.pt = r.pt], output |-> out]

\* DecryptPayload with the output file opened (and so truncated) before the
\* AEAD runs
DecryptPayloadOpenFirst(d, out) ==
    LET r  == AesGcmDecrypt(d.key, d.nonce, d.ct \o d.tag)
        d1 == [d EXCEPT !.aead = TRUE, !.opened = TRUE]
    IN  [dec |-> IF ~r.ok THEN DecFail(d1, "DecryptionFailed")
                 ELSE [d1 EXCEPT !.pc = "write", !.pt = r.pt],
         output |-> File(<< >>)]

\* the symmetric phase: AES-256-GCM over aes_ciphertext + gcm_tag; the
\* output file is not touched
DecryptPayload(d, out) ==
    LET r  == AesGcmDecrypt(d.key, d.nonce, d.ct \o d.tag)
        d1 == [d EXCEPT !.aead = TRUE]
    IN  [dec |-> IF ~r.ok THEN DecFail(d1, "DecryptionFailed")
                 ELSE [d1 EXCEPT !.pc = "write", !.pt = r.pt],
         output |-> out]

DecAead ==
    /\ dec.pc = "aead"
    /\ LET s == DecryptPayload(dec, output)
       IN  dec' = s.dec /\ output' = s.output
    /\ UNCHANGED <<plain, container, enc, tamper>> /\ UNCHANGED frontEnd

\* the output file is opened and the plaintext written
DecWrite ==
    /\ dec.pc = "write"
    /\ output' = File(dec.pt)
    /\ dec' = [dec EXCEPT !.pc = "done", !.opened = TRUE]
    /\ UNCHANGED <<plain, container, enc, tamper>> /\ UNCHANGED frontEnd

----------------------------------------------------------------------------
(* The specification. *)

Init ==
    /\ plain \in {File(p) : p \in Plaintexts} \cup {NoFile}
    /\ container = NoFile
    /\ output = NoFile
    /\ enc = EncIdle
    /\ dec = DecIdle
    /\ tamper = NoTamper
    /\ FrontEndIdle

Next ==
    \/ \E rk \in 0..NKem, signer \in 0..NDss : EncStart(rk, signer)
    \/ \E r \in KemSeeds : EncKem(r)
    \/ \E n \in NonceSeeds : EncAead(n)
    \/ EncSign
    \/ EncWrite
    \/ \E pos \in 1..Len(container.data), bit \in FlipBits : TamperFlip(pos, bit)
    \/ TamperStripSignature
    \/ TamperMoveTag
    \/ \E n \in TruncLens : TamperTruncate(n)
    \/ \E sk \in 1..NKem, spk \in 0..NDss, require \in BOOLEAN :
          DecStart(sk, spk, require)
    \/ DecKem
    \/ DecPolicy
    \/ DecAead
    \/ DecWrite

Spec == Init /\ [][Next]_vars

----------------------------------------------------------------------------
(* The codec alone: the encoder of encrypt is given any syntactically valid *)
(* field set, the decoder of decrypt parses what it wrote.                  *)

\* flags bytes given to the encoder
CodecFlags == {0, 3, 255}
\* 16-byte tags given to the encoder
CodecTags == {[i \in 1..TagLen |-> b] : b \in {7, 250}}
\* KEM ciphertexts given to the encoder, of every length up to KemCtLen
CodecKemCts == SeqsUpTo({1, 254}, KemCtLen)
\* signatures given to the encoder: None (<< >>) or a non-empty one
CodecSigs == SeqsUpTo({2, 253}, SigLen)

InitCodec ==
    /\ FrontEndIdle
    /\ plain = NoFile
    /\ container = NoFile
    /\ output = NoFile
    /\ dec = DecIdle
    /\ tamper = NoTamper
    /\ \E f \in CodecFlags, k \in CodecKemCts, t \in CodecTags,
          g \in CodecSigs, n \in NonceSeeds, c \in Plaintexts :
          enc = [EncIdle EXCEPT !.pc = "write", !.flags = f, !.kem_ct = k,
                                !.tag = t, !.hasSig = (g # << >>), !.sig = g,
                                !.nonce = Urandom12(n), !.ct = c]

NextCodec ==
    \/ EncWrite
    \/ \E sk \in {1}, spk \in {0}, require \in {FALSE} :
          DecStart(sk, spk, require)

SpecCodec == InitCodec /\ [][NextCodec]_vars

----------------------------------------------------------------------------
(* The key derivation alone: _encapsulate_key and _decapsulate_key are      *)
(* called with each of the libraries, the KEM of which returns a shared     *)
(* secret of any of the lengths of SecretLens.                              *)

\* the lengths of the shared secret a KEM returns
SecretLens == {1, 16, 31, 32, 33, 64}

\* the shared secret of n bytes the KEM returns for key pair k
LibrarySecret(k, n) ==
    [i \in 1..n |-> IF i <= KeyLen THEN SharedSecret(k, 1)[i]
                    ELSE (5 * i + k) % 256]

InitKdf ==
    /\ FrontEndIdle
    /\ plain = NoFile
    /\ container = NoFile
    /\ output = NoFile
    /\ tamper = NoTamper
    /\ \E i \in 1..Len(Libraries), k \in 1..NKem :
          /\ enc = [EncIdle EXCEPT !.pc = "kem", !.lib = Libraries[i],
                                   !.rk = k]
          /\ dec = [DecIdle EXCEPT !.pc = "kem", !.lib = Libraries[i],
                                   !.sk = k]

\* _encapsulate_key with a KEM whose shared secret has n bytes
KemEncapsulate(n) ==
    /\ enc.pc = "kem"
    /\ LET ss == LibrarySecret(enc.rk, n)
       IN  enc' = [enc EXCEPT !.pc = "done", !.kem_ct = KemCt(enc.rk, 1),
                              !.ss = ss, !.key = EncapsulateKey(enc.lib, ss),
                              !.encaps = @ + 1]
    /\ UNCHANGED <<plain, container, output, dec, tamper>> /\ UNCHANGED frontEnd

\* _decapsulate_key with a KEM whose shared secret has n bytes
KemDecapsulate(n) ==
    /\ dec.pc = "kem"
    /\ LET ss == LibrarySecret(dec.sk, n)
       IN  dec' = [dec EXCEPT !.pc = "done", !.kem_ct = KemCt(dec.sk, 1),
                              !.ss = ss, !.key = DecapsulateKey(dec.lib, ss),
                              !.keyRead = TRUE, !.decaps = TRUE]
    /\ UNCHANGED <<plain, container, output, enc, tamper>> /\ UNCHANGED frontEnd

NextKdf ==
    \/ \E n \in SecretLens : KemEncapsulate(n)
    \/ \E n \in SecretLens : KemDecapsulate(n)

SpecKdf == InitKdf /\ [][NextKdf]_vars

----------------------------------------------------------------------------
(* The command line: main() of main.py.  The core operation it calls is an  *)
(* outcome here: it returns or it raises an exception.                      *)

\* the pipeline is not running
CoreIdle ==
    /\ plain = NoFile
    /\ container = NoFile
    /\ output = NoFile
    /\ enc = EncIdle
    /\ dec = DecIdle
    /\ tamper = NoTamper

\* what args.command is after parse_args: None ("none") when no command was
\* given; "bad_args" stands for the command lines parse_args itself rejects
Commands == {"none", "keygen", "encrypt", "decrypt", "bad_args"}

CliIdle ==
    [pc |-> "idle", command |-> "none", file |-> FALSE, rkey |-> FALSE,
     signer |-> "none", require |-> FALSE, raises |-> FALSE,
     coreCalled |-> FALSE, status |-> -1]

\* sys.exit(n), or the return of main() with n = 0
CliExit(c, n) == [c EXCEPT !.pc = "exited", !.status = n]

InitCli ==
    /\ CoreIdle
    /\ fs = << >>
    /\ procs = << >>
    /\ env = [pc |-> "idle"]
    /\ cli = CliIdle

\* parser.parse_args(): the command, whether the input file and the
\* recipient key exist, the signer key ("none": not given, "missing": given
\* but no file), and whether the core operation will raise (it does when a
\* file it opens is missing)
CliParse(command, file, rkey, signer, require, raises) ==
    /\ cli.pc = "idle"
    /\ command \in {"none", "keygen", "bad_args"}
          => (file /\ rkey /\ signer = "none" /\ ~require)
    /\ command # "decrypt" => ~require
    /\ (command \in {"encrypt", "decrypt"}
           /\ (~file \/ ~rkey \/ signer = "missing")) => raises
    /\ LET c == [cli EXCEPT !.command = command, !.file = file,
                            !.rkey = rkey, !.signer = signer,
                            !.require = require, !.raises = raises]
       IN  cli' = IF command = "bad_args" THEN CliExit(c, 2)
                  ELSE [c EXCEPT !.pc = "dispatch"]
    /\ UNCHANGED core /\ UNCHANGED <<fs, procs, env>>

\* the if/elif chain on args.command with the Path(...).exists() checks of
\* the encrypt and decrypt branches
CliDispatch ==
    /\ cli.pc = "dispatch"
    /\ cli' = CASE cli.command = "keygen" -> [cli EXCEPT !.pc = "core"]
               [] cli.command \in {"encrypt", "decrypt"} ->
                    IF ~cli.file \/ ~cli.rkey \/ cli.signer = "missing"
                    THEN CliExit(cli, 1)
                    ELSE [cli EXCEPT !.pc = "core"]
               [] OTHER -> CliExit(cli, 1)
    /\ UNCHANGED core /\ UNCHANGED <<fs, procs, env>>

\* CliCore with the exception of the core operation swallowed
CliCoreSwallow ==
    /\ cli.pc = "core"
    /\ cli' = CliExit([cli EXCEPT !.coreCalled = TRUE], 0)
    /\ UNCHANGED core /\ UNCHANGED <<fs, procs, env>>

\* the call of generate_pqc_keys, encrypt_file_hybrid or
\* decrypt_file_hybrid inside try / except Exception: sys.exit(1)
CliCore ==
    /\ cli.pc = "core"
    /\ cli' = CliExit([cli EXCEPT !.coreCalled = TRUE],
                      IF cli.raises THEN 1 ELSE 0)
    /\ UNCHANGED core /\ UNCHANGED <<fs, procs, env>>

NextCli ==
    \/ \E command \in Commands, file \in BOOLEAN, rkey \in BOOLEAN,
          signer \in {"none", "given", "missing"}, require \in BOOLEAN,
          raises \in BOOLEAN :
          CliParse(command, file, rkey, signer, require, raises)
    \/ CliDispatch
    \/ CliCore

SpecCli == InitCli /\ [][NextCli]_vars

----------------------------------------------------------------------------
(* The choice of the library: generate_pqc_keys of key_manager.py and       *)
(* _get_pqc_library of encryptor.py and of decryptor.py, in an environment  *)
(* in which each of the three libraries can be imported or not, and the     *)
(* primitives of quantcrypt work or fail when they are called.              *)

\* _get_pqc_library of encryptor.py: the first library that can be imported
EncGetPqcLibrary(e) ==
    IF e.quantcrypt THEN Libraries[1]
    ELSE IF e.pqcrypto THEN Libraries[2]
    ELSE IF e.kyber_dilithium THEN Libraries[3]
    ELSE "ImportError"

\* _get_pqc_library of decryptor.py
DecGetPqcLibrary(e) ==
    IF e.quantcrypt THEN Libraries[1]
    ELSE IF e.pqcrypto THEN Libraries[2]
    ELSE IF e.kyber_dilithium THEN Libraries[3]
    ELSE "ImportError"

\* the library generate_pqc_keys makes the keys with: quantcrypt when it
\* can be imported and its keygen works; when its keygen fails the
\* ImportError raised in its place sends the call to the next library
KeygenLibrary(e) ==
    IF e.quantcrypt /\ e.works THEN Libraries[1]
    ELSE IF e.pqcrypto THEN Libraries[2]
    ELSE IF e.kyber_dilithium THEN Libraries[3]
    ELSE "ImportError"

InitEnv ==
    /\ CoreIdle
    /\ fs = << >>
    /\ procs = << >>
    /\ cli = [pc |-> "idle"]
    /\ \E q \in BOOLEAN, p \in BOOLEAN, k \in BOOLEAN, w \in BOOLEAN :
          env = [pc |-> "installed", quantcrypt |-> q, pqcrypto |-> p,
                 kyber_dilithium |-> k, works |-> w,
                 keygen |-> "unset", encryptor |-> "unset",
                 decryptor |-> "unset"]

\* generate_pqc_keys is called
EnvKeygen ==
    /\ env.pc = "installed" /\ env.keygen = "unset"
    /\ env' = [env EXCEPT !.keygen = KeygenLibrary(env)]
    /\ UNCHANGED core /\ UNCHANGED <<fs, procs, cli>>

\* _encapsulate_key or _sign_data calls _get_pqc_library
EnvEncryptor ==
    /\ env.pc = "installed" /\ env.encryptor = "unset"
    /\ env' = [env EXCEPT !.encryptor = EncGetPqcLibrary(env)]
    /\ UNCHANGED core /\ UNCHANGED <<fs, procs, cli>>

\* _decapsulate_key or _verify_signature calls _get_pqc_library
EnvDecryptor ==
    /\ env.pc = "installed" /\ env.decryptor = "unset"
    /\ env' = [env EXCEPT !.decryptor = DecGetPqcLibrary(env)]
    /\ UNCHANGED core /\ UNCHANGED <<fs, procs, cli>>

NextEnv ==
    \/ EnvKeygen
    \/ EnvEncryptor
    \/ EnvDecryptor

SpecEnv == InitEnv /\ [][NextEnv]_vars

----------------------------------------------------------------------------
(* Key generation from the web front end: NCalls requests to                *)
(* /api/keys/generate for the same user_id run generate_pqc_keys at the     *)
(* same time (the server handles each request in its own thread).  A key    *)
(* file holds the number of the call whose keygen made its content, 0 when  *)
(* it does not exist.                                                       *)

\* key_paths, in the order generate_pqc_keys writes and the route reads them
KeyFiles == <<"kem_public", "kem_private", "dss_public", "dss_private">>

\* one call of api_generate_keys: position, the next key file, keys_data
KeygenIdle ==
    [pc |-> "keygen", next |-> 1,
     keys_data |-> [f \in 1..Len(KeyFiles) |-> 0]]

InitKeygen ==
    /\ CoreIdle
    /\ cli = [pc |-> "idle"]
    /\ env = [pc |-> "idle"]
    /\ fs = [f \in 1..Len(KeyFiles) |-> 0]
    /\ procs = [p \in 1..NCalls |-> KeygenIdle]

\* call p makes its KEM and DSS key pairs (kem_instance.keygen(),
\* dss_instance.keygen()) and the user's key directory
KeygenGenerate(p) ==
    /\ procs[p].pc = "keygen"
    /\ procs' = [procs EXCEPT ![p].pc = "write"]
    /\ UNCHANGED core /\ UNCHANGED <<fs, cli, env>>

\* call p writes its next key file: with open(path, 'wb') as f: f.write(key)
KeygenWrite(p) ==
    /\ procs[p].pc = "write"
    /\ fs' = [fs EXCEPT ![procs[p].next] = p]
    /\ procs' = IF procs[p].next = Len(KeyFiles)
                 THEN [procs EXCEPT ![p].pc = "read", ![p].next = 1]
                 ELSE [procs EXCEPT ![p].next = @ + 1]
    /\ UNCHANGED core /\ UNCHANGED <<cli, env>>

\* generate_pqc_keys has returned key_paths; the route reads the next key
\* file into keys_data
KeygenRead(p) ==
    /\ procs[p].pc = "read"
    /\ procs' = [procs EXCEPT
                    ![p].keys_data[procs[p].next] = fs[procs[p].next],
                    ![p].pc = IF procs[p].next = Len(KeyFiles)
                              THEN "done" ELSE "read",
                    ![p].next = IF procs[p].next = Len(KeyFiles)
                                THEN 1 ELSE @ + 1]
    /\ UNCHANGED core /\ UNCHANGED <<fs, cli, env>>

NextKeygen ==
    \/ \E p \in 1..NCalls : KeygenGenerate(p)
    \/ \E p \in 1..NCalls : KeygenWrite(p)
    \/ \E p \in 1..NCalls : KeygenRead(p)

SpecKeygen == InitKeygen /\ [][NextKeygen]_vars

----------------------------------------------------------------------------
(* Two invocations at the same time on different input files of one         *)
(* directory.  A file name is the sequence of its parts between the dots,   *)
(* a part the sequence of a word and the "-decrypted" marks appended to it: *)
(* report.txt.pqc is << <<"report">>, <<"txt">>, <<"pqc">> >>.  What the    *)
(* core does to the content is kept to its shape here: encrypt wraps the    *)
(* content into a container, decrypt unwraps a container and fails on       *)
(* anything else (the empty file included).                                 *)

Invocations == {1, 2}

\* the names of the input files
InputNames ==
    { << <<"a">> >>, << <<"a">>, <<"pqc">> >>, << <<"a">>, <<"bin">> >>,
      << <<"a">>, <<"txt">>, <<"pqc">> >>, << <<"b">>, <<"pqc">> >> }

\* Path.suffix: the last part of a name of at least two parts
Suffix(name) == IF Len(name) >= 2 THEN name[Len(name)] ELSE << >>

\* Path.stem: the name without its suffix
Stem(name) == IF Len(name) >= 2 THEN SubSeq(name, 1, Len(name) - 1) ELSE name

\* input_path.with_suffix(input_path.suffix + '.pqc')
EncOutputPath(name) == Append(name, <<"pqc">>)

\* parts + '-decrypted'
WithDecrypted(parts) ==
    [parts EXCEPT ![Len(parts)] = Append(@, "-decrypted")]

\* the output name of decrypt: name.ext.pqc -> name-decrypted.ext,
\* name.pqc -> name-decrypted, any other name -> stem-decrypted
DecOutputPath(name) ==
    LET stem == Stem(name)
        n    == Len(stem)
    IN  IF Suffix(name) = <<"pqc">>
        THEN IF n >= 2
             THEN WithDecrypted(SubSeq(stem, 1, n - 1)) \o <<stem[n]>>
             ELSE WithDecrypted(stem)
        ELSE WithDecrypted(stem)

OutputPath(op, name) ==
    IF op = "encrypt" THEN EncOutputPath(name) ELSE DecOutputPath(name)

\* every name an invocation reads or writes
AllNames ==
    InputNames \cup {EncOutputPath(n) : n \in InputNames}
               \cup {DecOutputPath(n) : n \in InputNames}

\* the content of a file that is no container, and the container of it
PlainContent(name) == <<"data", name>>
Wrap(c) == <<"PQC1">> \o c

\* what an invocation computes from the bytes it read: encrypt always has
\* an output, decrypt only of a container
CoreResult(op, c) ==
    IF op = "encrypt" THEN [ok |-> TRUE, data |-> Wrap(c)]
    ELSE IF Len(c) > 0 /\ c[1] = "PQC1" THEN [ok |-> TRUE, data |-> Tail(c)]
    ELSE [ok |-> FALSE, data |-> << >>]

InitConc ==
    /\ CoreIdle
    /\ cli = [pc |-> "idle"]
    /\ env = [pc |-> "idle"]
    /\ \E names \in [Invocations -> InputNames],
          ops \in [Invocations -> {"encrypt", "decrypt"}],
          wrapped \in [Invocations -> BOOLEAN] :
          /\ \A p, q \in Invocations : p # q => names[p] # names[q]
          /\ LET content(p) == IF wrapped[p]
                                THEN Wrap(PlainContent(names[p]))
                                ELSE PlainContent(names[p])
             IN  /\ fs = [n \in AllNames |->
                           IF \E p \in Invocations : names[p] = n
                           THEN File(content(CHOOSE p \in Invocations :
                                                names[p] = n))
                           ELSE NoFile]
                 /\ procs = [p \in Invocations |->
                               [pc |-> "read", op |-> ops[p],
                                input |-> names[p], err |-> "none",
                                out |-> << >>, opened |-> FALSE,
                                alone |-> CoreResult(ops[p], content(p))]]

\* invocation p reads its input file and computes what it will write
ConcRead(p) ==
    /\ procs[p].pc = "read"
    /\ LET f == fs[procs[p].input]
           r == CoreResult(procs[p].op, f.data)
       IN  procs' = IF ~f.exists
                    THEN [procs EXCEPT ![p].pc = "done",
                                       ![p].err = "FileNotFound"]
                    ELSE IF ~r.ok
                    THEN [procs EXCEPT ![p].pc = "done", ![p].err = "Failed"]
                    ELSE [procs EXCEPT ![p].pc = "open", ![p].out = r.data]
    /\ UNCHANGED core /\ UNCHANGED <<fs, cli, env>>

\* open(output_path, 'wb'): the output file exists and is empty
ConcOpen(p) ==
    /\ procs[p].pc = "open"
    /\ fs' = [fs EXCEPT ![OutputPath(procs[p].op, procs[p].input)]
                            = File(<< >>)]
    /\ procs' = [procs EXCEPT ![p].pc = "write", ![p].opened = TRUE]
    /\ UNCHANGED core /\ UNCHANGED <<cli, env>>

\* the writes and the close of the with-block
ConcWrite(p) ==
    /\ procs[p].pc = "write"
    /\ fs' = [fs EXCEPT ![OutputPath(procs[p].op, procs[p].input)]
                            = File(procs[p].out)]
    /\ procs' = [procs EXCEPT ![p].pc = "done"]
    /\ UNCHANGED core /\ UNCHANGED <<cli, env>>

NextConc ==
    \/ \E p \in Invocations : ConcRead(p)
    \/ \E p \in Invocations : ConcOpen(p)
    \/ \E p \in Invocations : ConcWrite(p)

SpecConc == InitConc /\ [][NextConc]_vars

----------------------------------------------------------------------------
(* The claims. *)

EncOk == enc.pc = "done" /\ enc.err = "none"
DecDone == dec.pc = "done"
DecOk == dec.pc = "done" /\ dec.err = "none"
Untampered == tamper.kind = "none"
Flipped(regions) == tamper.kind = "flip" /\ tamper.region \in regions

\* C1: an unsigned container that encrypt wrote for recipient pk, decrypted
\* with the paired private key, no signer key and require_signature = false,
\* decrypts without error and the output file holds exactly the plaintext.
C1_RoundTrip ==
    (DecDone /\ EncOk /\ Untampered /\ enc.signer = 0
        /\ dec.sk = enc.rk /\ dec.spk = 0 /\ ~dec.require)
    => (dec.err = "none" /\ output = File(plain.data))

C1_Witness ==
    /\ DecOk /\ EncOk /\ Untampered /\ enc.signer = 0
    /\ dec.sk = enc.rk /\ dec.spk = 0 /\ ~dec.require
    /\ Len(plain.data) = MaxLen /\ output = File(plain.data)

\* C1 (empty plaintext): the same round trip of the 0-byte file is reached.
C1_WitnessEmpty ==
    /\ DecOk /\ EncOk /\ Untampered /\ enc.signer = 0
    /\ plain.data = << >> /\ output = File(<< >>)

\* C2: a container signed by signer s for recipient pk, decrypted with the
\* paired private key and the public key of s, decrypts without error to
\* exactly the plaintext, with signature_present and signature_verified true.
C2_SignedRoundTrip ==
    (DecDone /\ EncOk /\ Untampered /\ enc.signer # 0
        /\ dec.sk = enc.rk /\ dec.spk = enc.signer)
    => (/\ dec.err = "none" /\ output = File(plain.data)
        /\ dec.present /\ dec.verified = "true")

C2_Witness ==
    /\ DecOk /\ EncOk /\ Untampered /\ enc.signer # 0
    /\ dec.sk = enc.rk /\ dec.spk = enc.signer
    /\ Len(plain.data) = MaxLen /\ output = File(plain.data)
    /\ dec.present /\ dec.verified = "true"

\* C3: after one bit of the nonce, the KEM ciphertext, the tag or the AEAD
\* ciphertext of a signed container is flipped, decrypt given the signer's
\* public key ends with SignatureInvalid, has not invoked the AEAD and has
\* not written the output file.
C3_SignatureTamper ==
    (DecDone /\ EncOk /\ Flipped({"nonce", "kem_ct", "tag", "ct"})
        /\ enc.signer # 0 /\ dec.spk = enc.signer)
    => (/\ dec.err = "SignatureInvalid"
        /\ ~dec.aead /\ ~dec.opened /\ output = NoFile)

C3_Witness ==
    /\ DecDone /\ EncOk /\ Flipped({"kem_ct"})
    /\ enc.signer # 0 /\ dec.spk = enc.signer /\ dec.sk = enc.rk
    /\ dec.err = "SignatureInvalid" /\ dec.verify /\ ~dec.aead

\* C4 as stated: after one bit of the AEAD ciphertext or of the tag is
\* flipped, decrypt with the paired private key and no signer key ends with
\* DecryptionFailed.
C4_TamperAsStated ==
    (DecDone /\ EncOk /\ Flipped({"ct", "tag"})
        /\ dec.sk = enc.rk /\ dec.spk = 0)
    => dec.err = "DecryptionFailed"

\* C4, amended: after one bit of the AEAD ciphertext or of the tag is
\* flipped, decrypt with the paired private key, no signer key and
\* require_signature = false ends with DecryptionFailed and writes no output.
C4_Tamper ==
    (DecDone /\ EncOk /\ Flipped({"ct", "tag"})
        /\ dec.sk = enc.rk /\ dec.spk = 0 /\ ~dec.require)
    => (dec.err = "DecryptionFailed" /\ dec.aead /\ output = NoFile)

C4_Witness ==
    /\ DecDone /\ EncOk /\ Flipped({"ct"})
    /\ dec.sk = enc.rk /\ dec.spk = 0 /\ ~dec.require
    /\ dec.err = "DecryptionFailed" /\ output = NoFile

\* the calls the signature policy rejects whatever the recipient key is:
\* require_signature on an unsigned container or without a signer key, or a
\* signer key other than the signer's
PolicyRejects ==
    \/ dec.require /\ (enc.signer = 0 \/ dec.spk = 0)
    \/ enc.signer # 0 /\ dec.spk # 0 /\ dec.spk # enc.signer

PolicyErrors == {"SignatureRequired", "MissingSignerKey", "SignatureInvalid"}

\* C5 as stated: decrypt of a container with a KEM private key other than
\* the paired one ends with DecryptionFailed.
C5_KeyBindingAsStated ==
    (DecDone /\ EncOk /\ Untampered /\ dec.sk # enc.rk)
    => dec.err = "DecryptionFailed"

\* C5, amended: decrypt of a container with a KEM private key other than the
\* paired one never succeeds and writes no output; it ends with
\* DecryptionFailed unless the signature policy rejects the call, and with
\* the policy's error when it does.
C5_KeyBinding ==
    (DecDone /\ EncOk /\ Untampered /\ dec.sk # enc.rk)
    => (/\ dec.err # "none" /\ ~dec.opened /\ output = NoFile
        /\ ~PolicyRejects => dec.err = "DecryptionFailed"
        /\ PolicyRejects => dec.err \in PolicyErrors)

C5_Witness ==
    /\ DecDone /\ EncOk /\ Untampered /\ dec.sk # enc.rk
    /\ enc.signer # 0 /\ dec.spk = enc.signer /\ dec.verified = "true"
    /\ dec.err = "DecryptionFailed"

\* the runs in which the signature phase has been executed
PolicyDone ==
    \/ dec.pc \in {"aead", "write"}
    \/ dec.pc = "done"
       /\ dec.err \in PolicyErrors \cup {"none", "DecryptionFailed"}

\* the error the signature phase raised, "none" when the run went on
PolicyErr == IF dec.err \in PolicyErrors THEN dec.err ELSE "none"

\* C6: once the signature phase has run, its outcome is the policy matrix
\* applied to (signature_present, signer key given, require_signature):
\* unsigned passes with null or fails SignatureRequired; signed without a
\* signer key passes with false or fails MissingSignerKey; signed with a
\* signer key is verified, passing with true or failing SignatureInvalid.
C6_PolicyMatrix ==
    PolicyDone =>
      /\ (~dec.present /\ ~dec.require)
            => (PolicyErr = "none" /\ dec.verified = "null")
      /\ (~dec.present /\ dec.require) => PolicyErr = "SignatureRequired"
      /\ (dec.present /\ dec.spk = 0 /\ ~dec.require)
            => (PolicyErr = "none" /\ dec.verified = "false")
      /\ (dec.present /\ dec.spk = 0 /\ dec.require)
            => PolicyErr = "MissingSignerKey"
      /\ (dec.present /\ dec.spk # 0)
            => /\ dec.verify
               /\ IF Verify(dec.spk, dec.payload, dec.sig)
                  THEN PolicyErr = "none" /\ dec.verified = "true"
                  ELSE PolicyErr = "SignatureInvalid"
      /\ dec.present = (dec.sig_len > 0)

C6_Witness ==
    /\ DecDone /\ dec.present /\ dec.spk = 0 /\ dec.require
    /\ dec.err = "MissingSignerKey"

\* C7: a run that ends with SignatureRequired or MissingSignerKey has read
\* no private key and invoked neither decapsulation nor the AEAD, and a
\* signature verification is invoked before the decapsulation.
C7_PolicyBeforeCrypto ==
    /\ dec.err \in {"SignatureRequired", "MissingSignerKey"}
          => (~dec.keyRead /\ ~dec.decaps /\ ~dec.aead)
    /\ dec.verify => dec.verifyFirst

\* C8: a run of encrypt or decrypt that ends in an error has not opened its
\* output file, which does not exist; the output file is opened only in a
\* run in which every step before it succeeded.
C8_NoPartialOutput ==
    /\ (dec.pc = "done" /\ dec.err # "none")
          => (~dec.opened /\ output = NoFile)
    /\ (enc.pc = "done" /\ enc.err # "none")
          => (~enc.opened /\ container = NoFile)
    /\ dec.opened => (dec.err = "none" /\ dec.decaps /\ dec.aead
                        /\ (dec.present /\ dec.spk # 0 => dec.verify))
    /\ enc.opened => (enc.err = "none" /\ enc.encaps = 1 /\ enc.aead = 1)
    /\ output.exists => dec.opened
    /\ container.exists => enc.opened

C8_Witness ==
    /\ dec.pc = "done" /\ dec.err = "DecryptionFailed" /\ dec.aead
    /\ ~dec.opened /\ output = NoFile

\* C9: a container whose sig_len > 0 disagrees with the DSS bit (0x02) of
\* its flags byte is rejected (with InconsistentHeader), so no run that
\* succeeds has parsed one; in particular a signed container whose sig_len
\* was set to 0 and whose signature bytes were deleted is never decrypted.
C9_InconsistentHeaderRejected ==
    /\ DecOk => ((dec.sig_len > 0) = (BitOf(dec.flags, 1) = 1))
    /\ tamper.kind = "strip_signature" => ~DecOk

\* C10: a container whose tag_len is not 16 is rejected (with
\* InvalidLength): no run that succeeds has parsed a tag_len other than 16.
C10_TagLenRejected == DecOk => dec.tag_len = 16

\* the runs whose decoder has read the whole fixed header and the fields
Decoded ==
    /\ dec.pc # "idle"
    /\ dec.err \notin {"FileNotFound", "BadMagic", "StructError"}

\* C11: a container of at least 29 bytes whose declared kem_ct_len + tag_len
\* + sig_len exceeds the bytes that follow the 29-byte header is rejected
\* while it is decoded (with Truncated): the run that decoded it reads no
\* private key and invokes no decapsulation, verification or AEAD.
C11_TruncatedRejected ==
    (/\ Decoded /\ Len(container.data) >= 29
     /\ dec.kem_ct_len + dec.tag_len + dec.sig_len > Len(container.data) - 29)
    => (~dec.keyRead /\ ~dec.decaps /\ ~dec.verify /\ ~dec.aead)

\* C12: an input of fewer than 29 bytes is rejected by a length check that
\* comes before the comparison of the magic: its run never ends with
\* BadMagic, reads no private key and reaches neither the KEM nor the AEAD.
C12_ShortInputRejected ==
    (dec.pc # "idle" /\ container.exists /\ Len(container.data) < 29)
    => (/\ dec.pc = "done" /\ dec.err # "BadMagic"
        /\ ~dec.keyRead /\ ~dec.decaps /\ ~dec.aead)

\* the run of decrypt as it ends on a bad magic: 4 bytes read, no header
\* field parsed, no key read, no primitive invoked
BadMagicRun ==
    [DecIdle EXCEPT !.pc = "done", !.err = "BadMagic", !.nread = 4,
                    !.sk = dec.sk, !.spk = dec.spk, !.require = dec.require]

\* C13: decrypt of an input of at least 4 bytes whose first 4 bytes are not
\* 'PQC1' ends with BadMagic after exactly 4 bytes of the input were read:
\* no other header field is parsed, no key is read, no primitive is invoked
\* and no output is written.
C13_BadMagic ==
    (/\ dec.pc # "idle" /\ Len(container.data) >= 4
     /\ SubSeq(container.data, 1, 4) # PQC_FILE_MAGIC)
    => (dec = BadMagicRun /\ output = NoFile)

C13_Witness ==
    /\ Flipped({"magic"}) /\ Len(container.data) > 29
    /\ dec.pc = "done" /\ dec.err = "BadMagic" /\ dec.nread = 4
    /\ dec.kem_ct_len = 0 /\ ~dec.keyRead /\ ~dec.decaps

\* the flags bytes of the format: KEM bit 0x01 and symmetric bit 0x04 set,
\* DSS bit 0x02 free, bits 3..7 clear
FormatFlags(f) ==
    /\ BitOf(f, 0) = 1 /\ BitOf(f, 2) = 1
    /\ \A k \in 3..7 : BitOf(f, k) = 0

\* C14: a container whose flags byte has bit 0 or bit 2 clear, or one of
\* bits 3..7 set, is rejected (with UnsupportedAlgorithm), so no run that
\* succeeds has parsed such a byte.
C14_UnsupportedFlagsRejected == DecOk => FormatFlags(dec.flags)

\* C15: the flags byte of the file encrypt wrote has bits 0 and 2 set, bits
\* 3..7 clear, and bit 1 set exactly when a signer private key was given.
C15_EmittedFlags ==
    (EncOk /\ Untampered)
    => (/\ FormatFlags(container.data[5])
        /\ (BitOf(container.data[5], 1) = 1) = (enc.signer # 0))

\* C16: once the signature phase has run, signature_present is the DSS bit
\* (0x02) of the flags byte that was parsed.
C16_PresentFromDssBit ==
    PolicyDone => (dec.present = (BitOf(dec.flags, 1) = 1))

\* C17: the bytes decrypt passes to the verification of a signed container
\* are the bytes encrypt signed, pack('>BII12s', flags, kem_ct_len, tag_len,
\* nonce) || kem_ct || tag || ciphertext with the flags byte of the header;
\* decrypt rebuilds them from the parsed fields, and changed signature bytes
\* leave them as they were signed.
C17_PayloadBinding ==
    /\ (EncOk /\ enc.signer # 0 /\ Untampered)
          => /\ enc.payload = <<container.data[5]>>
                     \o PackU32(Len(enc.kem_ct)) \o PackU32(16) \o enc.nonce
                     \o enc.kem_ct \o enc.tag \o enc.ct
             /\ enc.sig = Sign(enc.signer, enc.payload)
             /\ BitOf(container.data[5], 1) = 1
    /\ (PolicyDone /\ dec.present)
          => dec.payload = <<dec.flags>> \o PackU32(dec.kem_ct_len)
                 \o PackU32(dec.tag_len) \o Pack12s(dec.nonce)
                 \o dec.kem_ct \o dec.tag \o dec.ct
    /\ (PolicyDone /\ EncOk /\ enc.signer # 0
            /\ (Untampered \/ Flipped({"signature"})))
          => (dec.present /\ dec.payload = enc.payload)

C17_Witness ==
    /\ DecOk /\ EncOk /\ enc.signer # 0 /\ Untampered
    /\ dec.spk = enc.signer /\ dec.verify /\ dec.verified = "true"
    /\ Len(plain.data) = MaxLen /\ dec.payload = enc.payload

\* C17 (changed signature): the run that verifies a container whose
\* signature bytes were changed is reached, with the payload as signed.
C17_WitnessSignatureFlipped ==
    /\ DecDone /\ EncOk /\ Flipped({"signature"}) /\ dec.spk = enc.signer
    /\ dec.verify /\ dec.err = "SignatureInvalid"
    /\ dec.payload = enc.payload

\* C18: the file encrypt writes is 'PQC1' || flags || kem_ct_len (u32 BE) ||
\* tag_len (u32 BE, 16) || sig_len (u32 BE, 0 when unsigned) || nonce (12) ||
\* kem_ct || tag || signature (when signed) || ciphertext, the tag and the
\* ciphertext being those of the AEAD, with nothing between or after them:
\* its length is 29 + |kem_ct| + 16 + sig_len + |plaintext|.
C18_ContainerLayout ==
    (EncOk /\ Untampered) =>
      LET c == container.data
          k == Len(enc.kem_ct)
          g == IF enc.signer # 0 THEN Len(enc.sig) ELSE 0
      IN  /\ SubSeq(c, 1, 4) = <<80, 81, 67, 49>>
          /\ c[5] = enc.flags
          /\ SubSeq(c, 6, 9) = PackU32(k)
          /\ SubSeq(c, 10, 13) = PackU32(16)
          /\ SubSeq(c, 14, 17) = PackU32(g)
          /\ SubSeq(c, 18, 29) = enc.nonce /\ Len(enc.nonce) = 12
          /\ SubSeq(c, 30, 29 + k) = enc.kem_ct
          /\ SubSeq(c, 30 + k, 45 + k) = enc.tag /\ Len(enc.tag) = 16
          /\ SubSeq(c, 46 + k, 45 + k + g)
                = (IF enc.signer # 0 THEN enc.sig ELSE << >>)
          /\ SubSeq(c, 46 + k + g, Len(c)) = enc.ct
          /\ enc.ct \o enc.tag = AesGcmEncrypt(enc.key, enc.nonce, plain.data)
          /\ (enc.signer # 0) = (g > 0)
          /\ Len(c) = 29 + k + 16 + g + Len(plain.data)

C18_Witness ==
    /\ EncOk /\ Untampered /\ enc.signer # 0 /\ Len(plain.data) = MaxLen
    /\ Len(container.data) = 29 + KemCtLen + 16 + SigLen + MaxLen

\* C18 (unsigned): the unsigned container of the empty file is reached,
\* 29 + |kem_ct| + 16 bytes long with sig_len = 0.
C18_WitnessUnsigned ==
    /\ EncOk /\ Untampered /\ enc.signer = 0 /\ plain.data = << >>
    /\ Len(container.data) = 29 + KemCtLen + 16
    /\ SubSeq(container.data, 14, 17) = <<0, 0, 0, 0>>

\* C19: the decoder of decrypt, given the file the encoder wrote for a
\* field set (any flags byte, a 12-byte nonce, a KEM ciphertext, a 16-byte
\* tag, no signature or a non-empty one, a ciphertext of any length), does
\* not fail and yields the same flags, lengths, nonce, KEM ciphertext, tag,
\* signature (absent when none was written) and ciphertext.
C19_CodecRoundTrip ==
    (dec.pc # "idle" /\ EncOk /\ Untampered) =>
      /\ Decoded
      /\ dec.flags = enc.flags
      /\ dec.nonce = enc.nonce
      /\ dec.kem_ct = enc.kem_ct /\ dec.kem_ct_len = Len(enc.kem_ct)
      /\ dec.tag = enc.tag /\ dec.tag_len = 16
      /\ dec.hasSig = enc.hasSig
      /\ dec.sig = enc.sig /\ dec.sig_len = Len(enc.sig)
      /\ dec.ct = enc.ct
      /\ dec.nread = Len(container.data)

C19_Witness ==
    /\ dec.pc = "kem" /\ EncOk /\ Untampered
    /\ enc.flags = 255 /\ enc.kem_ct = << >> /\ enc.ct = << >>
    /\ enc.hasSig /\ Len(enc.sig) = SigLen
    /\ dec.flags = 255 /\ dec.kem_ct = << >> /\ dec.ct = << >>
    /\ dec.hasSig /\ dec.sig = enc.sig /\ dec.tag = enc.tag

\* C19 (no signature): the field set without a signature and with a
\* ciphertext of MaxLen bytes is decoded.
C19_WitnessUnsigned ==
    /\ dec.pc = "kem" /\ EncOk /\ ~enc.hasSig /\ ~dec.hasSig
    /\ Len(enc.ct) = MaxLen /\ dec.ct = enc.ct
    /\ Len(enc.kem_ct) = KemCtLen /\ dec.kem_ct = enc.kem_ct

\* the session key the two-branch rule derives from a shared secret: its
\* first 32 bytes when it has at least 32, its HKDF-SHA256 otherwise
TwoBranchRule(ss) ==
    IF Len(ss) >= 32 THEN SubSeq(ss, 1, 32) ELSE Hkdf(ss)

\* C20: with every library, the session key _encapsulate_key and
\* _decapsulate_key return is the two-branch rule applied to the shared
\* secret the KEM returned, and is 32 bytes long.
C20_KeyDerivationRule ==
    /\ enc.ss # << >>
          => (enc.key = TwoBranchRule(enc.ss) /\ Len(enc.key) = 32)
    /\ dec.ss # << >>
          => (dec.key = TwoBranchRule(dec.ss) /\ Len(dec.key) = 32)

\* the byte sequence key occurs in the byte sequence c
Occurs(key, c) ==
    \E i \in 1..(Len(c) - Len(key) + 1) :
        c[i] = key[1] /\ SubSeq(c, i, i + Len(key) - 1) = key

ParsedPayload ==
    <<dec.flags>> \o PackU32(dec.kem_ct_len) \o PackU32(dec.tag_len)
        \o Pack12s(dec.nonce) \o dec.kem_ct \o dec.tag \o dec.ct

\* C24: signature_verified is true only in a run in which the verification
\* was called and accepted the signature bytes of the container for the
\* given signer public key and the payload rebuilt from the parsed fields;
\* a successful run without a signer key, or on a container with sig_len =
\* 0, has signature_verified false or null.
C24_VerifiedOnlyIfVerified ==
    /\ dec.verified = "true"
          => /\ dec.verify /\ dec.spk # 0 /\ dec.present /\ dec.sig_len > 0
             /\ dec.payload = ParsedPayload
             /\ Verify(dec.spk, ParsedPayload, dec.sig)
    /\ (DecOk /\ (dec.spk = 0 \/ dec.sig_len = 0))
          => dec.verified \in {"false", "null"}
    /\ (DecOk /\ dec.sig_len = 0) => dec.verified = "null"

C24_Witness ==
    /\ DecOk /\ dec.verified = "true" /\ dec.verify /\ dec.spk = enc.signer
    /\ Verify(dec.spk, ParsedPayload, dec.sig) /\ output = File(plain.data)

\* C24 (no signer key): the successful run on a signed container without a
\* signer key is reached, with signature_verified = false.
C24_WitnessUnverified ==
    /\ DecOk /\ dec.present /\ dec.spk = 0 /\ dec.verified = "false"
    /\ ~dec.verify

C22_WitnessMissingKey ==
    /\ cli.pc = "exited" /\ cli.command = "encrypt" /\ cli.file
    /\ ~cli.rkey /\ ~cli.coreCalled /\ cli.status = 1

C22_WitnessRaises ==
    /\ cli.pc = "exited" /\ cli.command = "keygen" /\ cli.coreCalled
    /\ cli.raises /\ cli.status = 1

C22_WitnessNoCommand ==
    cli.pc = "exited" /\ cli.command = "none" /\ cli.status = 1

\* C26: in every environment the library generate_pqc_keys made the keys
\* with is the library _get_pqc_library selects in the encryptor and in the
\* decryptor, and the encryptor and the decryptor select the same library.
C26_SameLibrary ==
    /\ (env.pc = "installed" /\ env.keygen \notin {"unset", "ImportError"})
          => /\ env.encryptor # "unset" => env.encryptor = env.keygen
             /\ env.decryptor # "unset" => env.decryptor = env.keygen
    /\ (env.pc = "installed" /\ env.encryptor # "unset"
            /\ env.decryptor # "unset")
          => env.encryptor = env.decryptor

\* C25: when all concurrent calls of generate_pqc_keys for one user have
\* ended, the KEM public and private key files come from the same call, and
\* so do the DSS key files; and the key data a call returns to its caller
\* is the key material that call generated.
C25_KeyFilesMatch ==
    /\ (\A p \in 1..NCalls : procs[p].pc = "done")
          => (fs[1] = fs[2] /\ fs[3] = fs[4])
    /\ \A p \in 1..NCalls :
          procs[p].pc = "done"
             => \A f \in 1..Len(KeyFiles) : procs[p].keys_data[f] = p

\* C21: when two invocations on different input files have both ended, no
\* file was written by both, and the output file of each invocation that
\* has an output when run alone holds exactly that output.
C21_NoInterference ==
    (\A p \in Invocations : procs[p].pc = "done") =>
      /\ \A p, q \in Invocations :
            (p # q /\ procs[p].opened /\ procs[q].opened)
               => OutputPath(procs[p].op, procs[p].input)
                    # OutputPath(procs[q].op, procs[q].input)
      /\ \A p \in Invocations :
            procs[p].alone.ok
               => fs[OutputPath(procs[p].op, procs[p].input)]
                    = File(procs[p].alone.data)

====
